---------------------------- MODULE Spec2Model ----------------------------
(***************************************************************************)
(* A model of parse_story.py: the story extraction pipeline                *)
(* (parse_gutenberg_html and the heuristics it calls) and the library      *)
(* update performed by main().                                             *)
(*                                                                         *)
(* Python strings are modelled as sequences of one-character strings, so   *)
(* that the regular expressions, str.lower, str.strip, str.split and       *)
(* slugify are computed character by character as the code computes them.  *)
(* The en dash of the age labels ("5-8", ...) is written as an ASCII       *)
(* hyphen, the only non-ASCII character of the program's outputs.          *)
(***************************************************************************)
EXTENDS Integers, Sequences, FiniteSets, TLC

VARIABLES
    library_file,   \* ./library.json: the sequence of story records
    content_dir,    \* ./content: the set of <<slug, chapter map>> files
    head,           \* the tree of the last git commit: <<library, content>>
    year,           \* datetime.now().year
    outcome,        \* how the latest run of main() ended
    run,            \* the locals of the latest run of main()
    origin,         \* history: link -> chapter map made with its record
    raw_text,       \* the plain text handed to a heuristic
    stage,          \* "input" before the heuristic ran, "done" after
    chapters,       \* the segmenter's ordered map, a sequence of <<key, value>>
    category,       \* detect_category's result
    characters,     \* extract_characters' result
    summary,        \* generate_summary's result
    word_count,     \* the word count handed to the two numeric heuristics
    reading_time,   \* estimate_reading_time's result
    age_category    \* detect_age_category's result

mainVars == <<library_file, content_dir, head, year, outcome, run, origin>>
textVars == <<raw_text, stage, chapters, category, characters, summary>>
numVars  == <<word_count, reading_time, age_category>>
vars     == <<mainVars, textVars, numVars>>

-----------------------------------------------------------------------------
(* Bounds of the model.                                                    *)

MaxAgeCount  == 15100  \* largest word count given to detect_age_category
MaxReadCount == 1000   \* largest word count given to estimate_reading_time

-----------------------------------------------------------------------------
(* Characters and strings.                                                 *)

UpperSeq == <<"A", "B", "C", "D", "E", "F", "G", "H", "I", "J", "K", "L", "M",
              "N", "O", "P", "Q", "R", "S", "T", "U", "V", "W", "X", "Y", "Z">>
LowerSeq == <<"a", "b", "c", "d", "e", "f", "g", "h", "i", "j", "k", "l", "m",
              "n", "o", "p", "q", "r", "s", "t", "u", "v", "w", "x", "y", "z">>
UpperSet == {UpperSeq[i] : i \in 1..26}
LowerSet == {LowerSeq[i] : i \in 1..26}
DigitSet == {"0", "1", "2", "3", "4", "5", "6", "7", "8", "9"}

\* \s of the re module, and the characters str.strip and str.split remove
IsSpace(c) == c \in {" ", "\n", "\t", "\r", "\f"}
\* \w of the re module
IsWord(c) == c \in UpperSet \cup LowerSet \cup DigitSet \cup {"_"}

\* str.lower on one character
LowerChar(c) ==
    IF c \in UpperSet THEN LowerSeq[CHOOSE i \in 1..26 : UpperSeq[i] = c] ELSE c

\* str.lower
Lower(s) == [i \in 1..Len(s) |-> LowerChar(s[i])]

Max(a, b) == IF a >= b THEN a ELSE b
Min(a, b) == IF a <= b THEN a ELSE b

\* s[i:j] of Python for 1-based i and exclusive end j: the characters i..j-1
Slice(s, i, j) == SubSeq(s, i, j - 1)

\* s.startswith(p, i - 1): p occurs in s at the 1-based position i
OccursAt(s, p, i) ==
    /\ i >= 1
    /\ i + Len(p) - 1 <= Len(s)
    /\ \A k \in 1..Len(p) : s[i + k - 1] = p[k]

\* p in s
Contains(s, p) == \E i \in 1..(Len(s) - Len(p) + 1) : OccursAt(s, p, i)

\* str.strip
RECURSIVE LStrip(_)
LStrip(s) == IF s # <<>> /\ IsSpace(Head(s)) THEN LStrip(Tail(s)) ELSE s
RECURSIVE RStrip(_)
RStrip(s) ==
    IF s # <<>> /\ IsSpace(s[Len(s)])
    THEN RStrip(SubSeq(s, 1, Len(s) - 1)) ELSE s
Strip(s) == RStrip(LStrip(s))

\* len(s.split()): the number of whitespace-separated words of s, one for
\* each position where a run of non-whitespace characters starts
WordCount(s) ==
    Cardinality({i \in 1..Len(s) :
                    ~IsSpace(s[i]) /\ (i = 1 \/ IsSpace(s[i - 1]))})

\* the least element of a non-empty set of positions
MinOf(S) == CHOOSE x \in S : \A y \in S : x <= y

\* the concatenation of a sequence of strings
RECURSIVE Flatten(_)
Flatten(ss) == IF ss = <<>> THEN <<>> ELSE Head(ss) \o Flatten(Tail(ss))

\* the sequences over S of length at most n
SeqsUpTo(S, n) == UNION {[1..k -> S] : k \in 0..n}

-----------------------------------------------------------------------------
(* estimate_reading_time and detect_age_category.                          *)

WordsPerMinute == 200

\* f"~{max(1, minutes)} min" is the triple <<"~", max(1, minutes), " min">>
EstimateReadingTimeNoFloor(wc) ==
    LET wpm == WordsPerMinute
        minutes == wc \div wpm
    IN  <<"~", minutes, " min">>

EstimateReadingTime(wc) ==
    LET wpm == WordsPerMinute
        minutes == wc \div wpm
    IN  <<"~", Max(1, minutes), " min">>

DetectAgeCategoryInclusive(wc) ==
    IF wc <= 1000 THEN "5-8"
    ELSE IF wc <= 5000 THEN "6-10"
    ELSE IF wc <= 15000 THEN "8-12"
    ELSE "10-14"

DetectAgeCategory(wc) ==
    IF wc < 1000 THEN "5-8"
    ELSE IF wc < 5000 THEN "6-10"
    ELSE IF wc < 15000 THEN "8-12"
    ELSE "10-14"

\* the variables a specification does not use keep these values
IdleMain ==
    /\ library_file = <<>>
    /\ content_dir = <<>>
    /\ head = <<<<>>, <<>>>>
    /\ year = 0
    /\ outcome = "none"
    /\ run = <<>>
    /\ origin = <<>>
IdleText ==
    /\ raw_text = <<>>
    /\ stage = "input"
    /\ chapters = <<>>
    /\ category = ""
    /\ characters = <<>>
    /\ summary = <<>>
IdleNum ==
    /\ word_count = 0
    /\ reading_time = <<>>
    /\ age_category = ""

\* detect_age_category applied to one word count
InitAge ==
    /\ IdleMain /\ IdleText
    /\ word_count \in 0..MaxAgeCount
    /\ reading_time = <<>>
    /\ age_category = ""

DetectAge ==
    /\ age_category = ""
    /\ age_category' = DetectAgeCategory(word_count)
    /\ UNCHANGED <<word_count, reading_time, mainVars, textVars>>

SpecAge == InitAge /\ [][DetectAge]_vars

\* estimate_reading_time applied to one word count after another
InitRead == IdleMain /\ IdleText /\ IdleNum

EstimateReading(wc) ==
    /\ word_count' = wc
    /\ reading_time' = EstimateReadingTime(wc)
    /\ UNCHANGED <<age_category, mainVars, textVars>>

NextRead == \E wc \in 0..MaxReadCount : EstimateReading(wc)

SpecRead == InitRead /\ [][NextRead]_vars

-----------------------------------------------------------------------------
\* C8: for every word count w >= 0 detect_age_category returns exactly one of
\* the four labels, with half-open bands: "5-8" on [0, 1000), "6-10" on
\* [1000, 5000), "8-12" on [5000, 15000) and "10-14" from 15000 on.
AgeBandsHalfOpen ==
    age_category # "" =>
        /\ age_category \in {"5-8", "6-10", "8-12", "10-14"}
        /\ age_category = "5-8" <=> (0 <= word_count /\ word_count < 1000)
        /\ age_category = "6-10" <=> (1000 <= word_count /\ word_count < 5000)
        /\ age_category = "8-12" <=> (5000 <= word_count /\ word_count < 15000)
        /\ age_category = "10-14" <=> (15000 <= word_count)

\* a word count on a band boundary has been classified into the upper band
AgeBoundaryClassified ==
    /\ word_count = 15000
    /\ age_category = "10-14"

\* C9: for every word count w >= 0 the reading time is the label "~N min"
\* where N is 1 below 200 words and otherwise the number of whole 200-word
\* minutes in w; N never falls below 1 and never decreases when w grows.
ReadingLabelOk ==
    reading_time # <<>> =>
        /\ Len(reading_time) = 3
        /\ reading_time[1] = "~"
        /\ reading_time[3] = " min"
        /\ reading_time[2] >= 1
        /\ \/ word_count < 200 /\ reading_time[2] = 1
           \/ /\ reading_time[2] * 200 <= word_count
              /\ word_count < (reading_time[2] + 1) * 200

ReadingMonotoneStep ==
    (reading_time # <<>> /\ word_count <= word_count')
        => reading_time[2] <= reading_time'[2]

ReadingTimeFloorMonotone == []ReadingLabelOk /\ [][ReadingMonotoneStep]_vars

\* a text of at least two 200-word minutes has been timed
ReadingTimed ==
    /\ word_count >= 400
    /\ reading_time # <<>>
    /\ reading_time[2] = 2

-----------------------------------------------------------------------------
(* The segmenter of parse_gutenberg_html.                                  *)

MaxSegPieces == 4   \* most pieces a segmenter input is built from

ChapterWord  == <<"C", "h", "a", "p", "t", "e", "r">>
ChapterUpper == <<"C", "H", "A", "P", "T", "E", "R">>
FullStory    == <<"F", "u", "l", "l", " ", "S", "t", "o", "r", "y">>

\* the first position at or after i that holds no whitespace (\s+, greedy)
RECURSIVE SkipSpace(_, _)
SkipSpace(s, i) ==
    IF i <= Len(s) /\ IsSpace(s[i]) THEN SkipSpace(s, i + 1) ELSE i

\* the first position at or after i that holds no word character (\w+, greedy)
RECURSIVE SkipWord(_, _)
SkipWord(s, i) ==
    IF i <= Len(s) /\ IsWord(s[i]) THEN SkipWord(s, i + 1) ELSE i

\* r'(Chapter\s+\w+|CHAPTER\s+\w+)' matched at position i: the position after
\* the match, or 0 when the pattern does not match there
ChapterMatchEnd(s, i) ==
    IF OccursAt(s, ChapterWord, i) \/ OccursAt(s, ChapterUpper, i)
    THEN LET w == SkipSpace(s, i + 7)
             e == SkipWord(s, w)
         IN  IF w > i + 7 /\ e > w THEN e ELSE 0
    ELSE 0

\* list(re.finditer(...)) from position pos on: the matches in text order,
\* each [start, end) with end exclusive, none overlapping the one before
RECURSIVE ChapterMatches(_, _)
ChapterMatches(s, pos) ==
    LET hits == {i \in pos..Len(s) : ChapterMatchEnd(s, i) > 0}
    IN  IF hits = {} THEN <<>>
        ELSE LET i == MinOf(hits)
                 e == ChapterMatchEnd(s, i)
             IN  <<[start |-> i, end |-> e]>> \o ChapterMatches(s, e)

\* d[k] = v on a dict kept as the sequence of its <<key, value>> items: a new
\* key is appended, an existing key keeps its place and takes the new value
DictSet(d, k, v) ==
    IF \E i \in 1..Len(d) : d[i][1] = k
    THEN [i \in 1..Len(d) |-> IF d[i][1] = k THEN <<k, v>> ELSE d[i]]
    ELSE Append(d, <<k, v>>)

\* the loop of lines 110-114 from match i on, over the dict built so far
RECURSIVE SegmentLoopToNextEnd(_, _, _, _)
SegmentLoopToNextEnd(s, matches, i, d) ==
    IF i > Len(matches) THEN d
    ELSE LET start == matches[i].start
             end == IF i + 1 <= Len(matches)
                    THEN matches[i + 1].end ELSE Len(s) + 1
             ch_title == Strip(Slice(s, start, matches[i].end))
         IN  SegmentLoopToNextEnd(
                 s, matches, i + 1,
                 DictSet(d, ch_title, Strip(Slice(s, start, end))))

RECURSIVE SegmentLoop(_, _, _, _)
SegmentLoop(s, matches, i, d) ==
    IF i > Len(matches) THEN d
    ELSE LET start == matches[i].start
             end == IF i + 1 <= Len(matches)
                    THEN matches[i + 1].start ELSE Len(s) + 1
             ch_title == Strip(Slice(s, start, matches[i].end))
         IN  SegmentLoop(s, matches, i + 1,
                         DictSet(d, ch_title, Strip(Slice(s, start, end))))

\* lines 107-116: the chapter map of a plain text
Segment(s) ==
    LET matches == ChapterMatches(s, 1)
    IN  IF matches # <<>>
        THEN SegmentLoop(s, matches, 1, <<>>)
        ELSE <<<<FullStory, s>>>>

\* the pieces segmenter inputs are built from
SegPieces ==
    { ChapterWord \o <<" ", "1", " ">>,
      ChapterWord \o <<" ", "2", " ">>,
      <<"h", "e", "l", "l", "o", " ", "w", "o", "r", "l", "d", " ">>,
      <<"g", "o", "o", "d", "b", "y", "e">>,
      ChapterWord \o <<" ">>,
      ChapterUpper \o <<"\n", "I", "I", " ">>,
      <<"t", "h", "e", " ", "c", "h", "a", "p", "t", "e", "r", " ", "o", "f",
        " ">>,
      <<".">> }

SegTexts == {Flatten(ps) : ps \in SeqsUpTo(SegPieces, MaxSegPieces)}

InitSeg ==
    /\ IdleMain /\ IdleNum
    /\ raw_text \in SegTexts
    /\ stage = "input"
    /\ chapters = <<>>
    /\ category = ""
    /\ characters = <<>>
    /\ summary = <<>>

SegmentText ==
    /\ stage = "input"
    /\ stage' = "done"
    /\ chapters' = Segment(raw_text)
    /\ UNCHANGED <<raw_text, category, characters, summary, mainVars, numVars>>

SpecSeg == InitSeg /\ [][SegmentText]_vars

\* the label and the trimmed segment of marker i of the matches M of text s
MarkerLabel(s, M, i) == Strip(Slice(s, M[i].start, M[i].end))
MarkerSegment(s, M, i) ==
    Strip(Slice(s, M[i].start,
                IF i < Len(M) THEN M[i + 1].start ELSE Len(s) + 1))

\* C4 as stated: every marker, in text order, is mapped to the trimmed text
\* from its start up to the next marker's start (or the end of the text), and
\* a text with no marker gives the single entry "Full Story" -> whole text.
SegmentEveryMarker ==
    stage = "done" =>
        LET M == ChapterMatches(raw_text, 1)
        IN  IF M = <<>>
            THEN chapters = <<<<FullStory, raw_text>>>>
            ELSE /\ Len(chapters) = Len(M)
                 /\ \A i \in 1..Len(M) :
                        chapters[i] = <<MarkerLabel(raw_text, M, i),
                                        MarkerSegment(raw_text, M, i)>>

\* C4 as amended: a text with no marker gives the single entry "Full Story"
\* -> whole text; otherwise the map has one entry per distinct marker label,
\* in the order of the labels' first markers, and every marker whose label no
\* later marker repeats is mapped to the trimmed text from its start up to the
\* next marker's start (or the end of the text): a repeated label keeps only
\* the segment of its last marker.
SegmentLastMarkerWins ==
    stage = "done" =>
        LET M == ChapterMatches(raw_text, 1)
            n == Len(M)
            label == [i \in 1..n |-> MarkerLabel(raw_text, M, i)]
            segment == [i \in 1..n |-> MarkerSegment(raw_text, M, i)]
            key == [a \in 1..Len(chapters) |-> chapters[a][1]]
            first == [a \in 1..Len(chapters) |->
                         CHOOSE i \in 1..n :
                             /\ label[i] = key[a]
                             /\ \A j \in 1..(i - 1) : label[j] # key[a]]
        IN  IF M = <<>>
            THEN chapters = <<<<FullStory, raw_text>>>>
            ELSE /\ \A a, b \in 1..Len(chapters) : a # b => key[a] # key[b]
                 /\ {key[a] : a \in 1..Len(chapters)} = {label[i] : i \in 1..n}
                 /\ \A a, b \in 1..Len(chapters) : a < b => first[a] < first[b]
                 /\ \A i \in 1..n :
                        (\A j \in (i + 1)..n : label[j] # label[i]) =>
                            \E a \in 1..Len(chapters) :
                                chapters[a] = <<label[i], segment[i]>>

\* "Chapter 1 hello world Chapter 2 goodbye" has been segmented into its two
\* chapters
SegmentedExample ==
    /\ stage = "done"
    /\ raw_text = ChapterWord \o <<" ", "1", " ">>
                  \o <<"h", "e", "l", "l", "o", " ">>
                  \o <<"w", "o", "r", "l", "d", " ">>
                  \o ChapterWord \o <<" ", "2", " ">>
                  \o <<"g", "o", "o", "d", "b", "y", "e">>
    /\ chapters = << <<ChapterWord \o <<" ", "1">>,
                       ChapterWord \o <<" ", "1", " ", "h", "e", "l", "l", "o",
                                        " ", "w", "o", "r", "l", "d">> >>,
                     <<ChapterWord \o <<" ", "2">>,
                       ChapterWord \o <<" ", "2", " ", "g", "o", "o", "d", "b",
                                        "y", "e">> >> >>

-----------------------------------------------------------------------------
(* detect_category.                                                        *)

MaxCatPieces == 3   \* most pieces a detect_category input is built from

\* the themes dict of lines 34-41, in its declaration (= iteration) order
Themes ==
    << [name |-> "Morality & Cautionary Lessons",
        keywords |-> <<
            <<"f", "o", "o", "l", "i", "s", "h">>,
            <<"w", "i", "s", "e">>,
            <<"l", "e", "s", "s", "o", "n">>,
            <<"m", "o", "r", "a", "l">>,
            <<"p", "u", "n", "i", "s", "h">>>>],
       [name |-> "Actions & Consequences",
        keywords |-> <<
            <<"c", "o", "n", "s", "e", "q", "u", "e", "n", "c", "e">>,
            <<"r", "e", "s", "u", "l", "t">>,
            <<"c", "h", "o", "i", "c", "e">>,
            <<"a", "c", "t", "i", "o", "n">>,
            <<"r", "e", "g", "r", "e", "t">>>>],
       [name |-> "Empathy & Transformation",
        keywords |-> <<
            <<"f", "e", "e", "l">>,
            <<"c", "h", "a", "n", "g", "e">>,
            <<"u", "n", "d", "e", "r", "s", "t", "a", "n", "d">>,
            <<"k", "i", "n", "d">>,
            <<"t", "r", "a", "n", "s", "f", "o", "r", "m">>>>],
       [name |-> "Friendship & Loyalty",
        keywords |-> <<
            <<"f", "r", "i", "e", "n", "d">>,
            <<"l", "o", "y", "a", "l">>,
            <<"t", "r", "u", "s", "t">>,
            <<"h", "e", "l", "p">>,
            <<"t", "o", "g", "e", "t", "h", "e", "r">>>>],
       [name |-> "Growing Up & Responsibility",
        keywords |-> <<
            <<"c", "h", "i", "l", "d">>,
            <<"g", "r", "o", "w">>,
            <<"r", "e", "s", "p", "o", "n", "s", "i", "b", "l", "e">>,
            <<"a", "d", "u", "l", "t">>,
            <<"l", "e", "a", "r", "n">>>>],
       [name |-> "Curiosity & Imagination",
        keywords |-> <<
            <<"d", "r", "e", "a", "m">>,
            <<"i", "m", "a", "g", "i", "n", "e">>,
            <<"w", "o", "n", "d", "e", "r">>,
            <<"e", "x", "p", "l", "o", "r", "e">>,
            <<"m", "a", "g", "i", "c">>>>] >>

DefaultCategory == "Curiosity & Imagination"

\* any(word in text.lower() for word in keywords)
AnyKeyword(text, keywords) ==
    \E k \in 1..Len(keywords) : Contains(Lower(text), keywords[k])

\* the loop of lines 42-45 from theme i on
RECURSIVE DetectCategoryLastFrom(_, _, _)
DetectCategoryLastFrom(text, i, found) ==
    IF i > Len(Themes) THEN found
    ELSE DetectCategoryLastFrom(text, i + 1,
             IF AnyKeyword(text, Themes[i].keywords) THEN Themes[i].name
             ELSE found)
DetectCategoryLastMatch(text) ==
    DetectCategoryLastFrom(text, 1, DefaultCategory)

RECURSIVE DetectCategoryFrom(_, _)
DetectCategoryFrom(text, i) ==
    IF i > Len(Themes) THEN DefaultCategory
    ELSE IF AnyKeyword(text, Themes[i].keywords) THEN Themes[i].name
    ELSE DetectCategoryFrom(text, i + 1)

DetectCategory(text) == DetectCategoryFrom(text, 1)

\* the pieces detect_category inputs are built from
CatPieces ==
    { <<"M", "a", "g", "i", "c", " ">>,
      <<"w", "i", "s", "e", " ">>,
      <<"F", "R", "I", "E", "N", "D", "S", " ">>,
      <<"u", "n", "k", "i", "n", "d", " ">>,
      <<"c", "a", "t", " ">>,
      <<"m", "a", "g", "i", "c", " ">>,
      <<"r", "e", "g", "r", "e", "t", ".", " ">>,
      <<"L", "e", "a", "r", "n">> }

CatTexts == {Flatten(ps) : ps \in SeqsUpTo(CatPieces, MaxCatPieces)}

InitCat ==
    /\ IdleMain /\ IdleNum
    /\ raw_text \in CatTexts
    /\ stage = "input"
    /\ chapters = <<>>
    /\ category = ""
    /\ characters = <<>>
    /\ summary = <<>>

Categorise ==
    /\ stage = "input"
    /\ stage' = "done"
    /\ category' = DetectCategory(raw_text)
    /\ UNCHANGED <<raw_text, chapters, characters, summary, mainVars, numVars>>

SpecCat == InitCat /\ [][Categorise]_vars

\* c and d are the same letter up to case, or the same character
SameUpToCase(c, d) ==
    \/ c = d
    \/ \E n \in 1..26 : {c, d} = {UpperSeq[n], LowerSeq[n]}

\* the keyword occurs somewhere in the text, in any mix of cases
PresentAnyCase(text, keyword) ==
    \E i \in 1..(Len(text) - Len(keyword) + 1) :
        \A k \in 1..Len(keyword) : SameUpToCase(text[i + k - 1], keyword[k])

\* the themes that have at least one keyword present in the text
ThemesPresent(text) ==
    {i \in 1..Len(Themes) :
        \E k \in 1..Len(Themes[i].keywords) :
            PresentAnyCase(text, Themes[i].keywords[k])}

\* C5: detect_category returns the first theme, in declaration order, with a
\* keyword present in the text regardless of letter case, and "Curiosity &
\* Imagination" when no theme has one; the result is determined by the set of
\* themes with a keyword present alone.
CategoryFirstPresentTheme ==
    stage = "done" =>
        LET present == ThemesPresent(raw_text)
        IN  IF present = {}
            THEN category = "Curiosity & Imagination"
            ELSE \E i \in present :
                    /\ \A j \in present : i <= j
                    /\ category = Themes[i].name

\* a text whose only keyword is "magic", written with a capital, has been
\* classified as "Curiosity & Imagination"
CategorisedMagicOnly ==
    /\ stage = "done"
    /\ ThemesPresent(raw_text) = {6}
    /\ Contains(raw_text, <<"M", "a", "g", "i", "c">>)
    /\ ~Contains(raw_text, <<"m", "a", "g", "i", "c">>)
    /\ category = "Curiosity & Imagination"

-----------------------------------------------------------------------------
(* extract_characters.                                                     *)

MaxCharPieces == 5   \* most pieces an extract_characters input is built from
MaxEdgePieces == 3   \* most pieces of an input built from the edge-case pieces
MaxTailPieces == 2   \* most pieces after the names of a many-names input

MostCommonN == 10    \* freq.most_common(10)

\* the first position at or after i that holds no lower-case letter
RECURSIVE SkipLower(_, _)
SkipLower(s, i) ==
    IF i <= Len(s) /\ s[i] \in LowerSet THEN SkipLower(s, i + 1) ELSE i

\* r'\b[A-Z][a-z]{2,}\b' matched at position i: the position after the match,
\* or 0 when the pattern does not match there.  The greedy [a-z]{2,} cannot
\* give a letter back: \b never holds between two lower-case letters.
NameMatchEnd(s, i) ==
    IF /\ s[i] \in UpperSet
       /\ (i = 1 \/ ~IsWord(s[i - 1]))
    THEN LET e == SkipLower(s, i + 1)
         IN  IF e - (i + 1) >= 2 /\ (e > Len(s) \/ ~IsWord(s[e])) THEN e ELSE 0
    ELSE 0

\* re.findall(...) from position pos on: the matched words in text order
RECURSIVE FindNames(_, _)
FindNames(s, pos) ==
    LET hits == {i \in pos..Len(s) : NameMatchEnd(s, i) > 0}
    IN  IF hits = {} THEN <<>>
        ELSE LET i == MinOf(hits)
                 e == NameMatchEnd(s, i)
             IN  <<Slice(s, i, e)>> \o FindNames(s, e)

\* line 49
Blacklist ==
    { <<"C", "h", "a", "p", "t", "e", "r">>,
      <<"P", "r", "o", "j", "e", "c", "t">>,
      <<"G", "u", "t", "e", "n", "b", "e", "r", "g">>,
      <<"T", "h", "i", "s">>,
      <<"T", "h", "a", "t">>,
      <<"F", "r", "o", "m">>,
      <<"W", "i", "t", "h">>,
      <<"T", "a", "b", "l", "e">>,
      <<"A", "b", "o", "u", "t">>,
      <<"A", "b", "o", "v", "e">>,
      <<"B", "e", "l", "o", "w">>,
      <<"M", "o", "r", "e">>,
      <<"L", "e", "s", "s">>,
      <<"O", "t", "h", "e", "r">> }

\* Counter(words): the <<word, count>> items in the order of first occurrence
RECURSIVE CounterOf(_, _)
CounterOf(words, c) ==
    IF words = <<>> THEN c
    ELSE LET w == Head(words)
         IN  CounterOf(Tail(words),
                 IF \E i \in 1..Len(c) : c[i][1] = w
                 THEN [i \in 1..Len(c) |->
                          IF c[i][1] = w THEN <<w, c[i][2] + 1>> ELSE c[i]]
                 ELSE Append(c, <<w, 1>>))

\* Counter.most_common(n): the n items of largest count, largest first, items
\* of equal count in the order of first occurrence
RECURSIVE MostCommon(_, _)
MostCommon(items, n) ==
    IF n = 0 \/ items = <<>> THEN <<>>
    ELSE LET i == CHOOSE i \in 1..Len(items) :
                      /\ \A j \in 1..Len(items) : items[j][2] <= items[i][2]
                      /\ \A j \in 1..(i - 1) : items[j][2] < items[i][2]
             rest == [j \in 1..(Len(items) - 1) |->
                         IF j < i THEN items[j] ELSE items[j + 1]]
         IN  <<items[i]>> \o MostCommon(rest, n - 1)

\* the rest of the description template of line 55
DescriptionSuffix ==
    <<" ", "i", "s", " ", "a", " ", "r", "e", "c", "u", "r", "r", "i", "n",
      "g", " ", "c", "h", "a", "r", "a", "c", "t", "e", "r", " ", "w", "h",
      "o", " ", "a", "p", "p", "e", "a", "r", "s", " ", "t", "o", " ", "p",
      "l", "a", "y", " ", "a", " ", "k", "e", "y", " ", "r", "o", "l", "e",
      " ", "i", "n", " ", "t", "h", "e", " ", "n", "a", "r", "r", "a", "t",
      "i", "v", "e", ".">>

Character(name) == [name |-> name, description |-> name \o DescriptionSuffix]

\* extract_characters with the test of line 52, count > 2, left out
ExtractCharactersNoMinimum(text) ==
    LET words == FindNames(text, 1)
        filtered == SelectSeq(words, LAMBDA w : w \notin Blacklist)
        freq == CounterOf(filtered, <<>>)
        top == MostCommon(freq, MostCommonN)
    IN  [i \in 1..Len(top) |-> Character(top[i][1])]

\* lines 47-57
ExtractCharacters(text) ==
    LET words == FindNames(text, 1)
        filtered == SelectSeq(words, LAMBDA w : w \notin Blacklist)
        freq == CounterOf(filtered, <<>>)
        top == SelectSeq(MostCommon(freq, MostCommonN), LAMBDA it : it[2] > 2)
    IN  [i \in 1..Len(top) |-> Character(top[i][1])]

\* the pieces extract_characters inputs are built from
CharPieces ==
    { <<"A", "l", "i", "c", "e", " ">>,
      <<"B", "o", "b", " ">>,
      <<"B", "o", "b", " ", "B", "o", "b", ".", " ">>,
      <<"C", "h", "a", "p", "t", "e", "r", " ">> }

CharEdgePieces ==
    { <<"A", "l", "i", "c", "e", " ">>,
      <<"A", "l", " ">>,
      <<"A", "L", "I", "C", "E", " ">>,
      <<"M", "c", "C", "o", "y", " ">>,
      <<"A", "l", "i", "c", "e", "'", "s", " ">>,
      <<"_", "A", "l", "i", "c", "e", "2", " ">> }

\* twelve distinct names, for texts with more than ten recurring names
ManyNames ==
    << <<"A", "n", "n">>,
       <<"B", "e", "n">>,
       <<"C", "a", "l">>,
       <<"D", "a", "n">>,
       <<"E", "v", "e">>,
       <<"F", "a", "y">>,
       <<"G", "u", "s">>,
       <<"H", "a", "l">>,
       <<"I", "a", "n">>,
       <<"J", "o", "y">>,
       <<"K", "i", "m">>,
       <<"L", "e", "e">> >>

\* the first k of the names, each three times
RECURSIVE ThreeOfEach(_)
ThreeOfEach(k) ==
    IF k = 0 THEN <<>>
    ELSE LET w == ManyNames[k] \o <<" ">> IN ThreeOfEach(k - 1) \o w \o w \o w

CharTexts ==
    {Flatten(ps) : ps \in SeqsUpTo(CharPieces, MaxCharPieces)}
    \cup {Flatten(ps) : ps \in SeqsUpTo(CharEdgePieces, MaxEdgePieces)}
    \cup {ThreeOfEach(k) \o Flatten(ps) :
            k \in 9..Len(ManyNames), ps \in SeqsUpTo(CharPieces, MaxTailPieces)}

InitChars ==
    /\ IdleMain /\ IdleNum
    /\ raw_text \in CharTexts
    /\ stage = "input"
    /\ chapters = <<>>
    /\ category = ""
    /\ characters = <<>>
    /\ summary = <<>>

FindCharacters ==
    /\ stage = "input"
    /\ stage' = "done"
    /\ characters' = ExtractCharacters(raw_text)
    /\ UNCHANGED <<raw_text, chapters, category, summary, mainVars, numVars>>

SpecChars == InitChars /\ [][FindCharacters]_vars

\* a capitalized word starts at p and ends before e: an upper-case letter not
\* preceded by a word character, then two or more lower-case letters up to e,
\* where no word character follows
CapitalAt(s, p) ==
    /\ s[p] \in UpperSet
    /\ p = 1 \/ ~IsWord(s[p - 1])
LowerUpTo(s, p, e) ==
    /\ e >= p + 3
    /\ \A x \in (p + 1)..(e - 1) : s[x] \in LowerSet
    /\ e = Len(s) + 1 \/ ~IsWord(s[e])
NameStarts(s) ==
    {p \in 1..Len(s) :
        CapitalAt(s, p) /\ \E e \in (p + 3)..(Len(s) + 1) : LowerUpTo(s, p, e)}
NameAt(s, p) ==
    Slice(s, p, CHOOSE e \in (p + 3)..(Len(s) + 1) : LowerUpTo(s, p, e))

\* a word that occurs ca times, first at fa, ranks before one that occurs cb
\* times, first at fb: more frequent, or as frequent and earlier
RankedBefore(ca, fa, cb, fb) == ca > cb \/ (ca = cb /\ fa < fb)

\* C6 as stated: every distinct capitalized word of the text is returned
\* exactly once, however rarely it occurs, at most 10 of them, so that
\* "Alice met Bob. Alice helped Bob again." gives exactly Alice and Bob.
CharactersEveryCandidate ==
    stage = "done" =>
        LET starts == NameStarts(raw_text)
            candidates == {NameAt(raw_text, p) : p \in starts} \ Blacklist
            n == Len(characters)
        IN  /\ n <= 10
            /\ n = Min(10, Cardinality(candidates))
            /\ \A i \in 1..n : characters[i].name \in candidates
            /\ \A i, j \in 1..n :
                    i # j => characters[i].name # characters[j].name

\* C6 as amended: extract_characters returns, exactly once each, the
\* capitalized words (not blacklisted) that occur more than twice in the text,
\* most frequent first and words of equal frequency in the order of their
\* first occurrence, cut to the first 10; each comes with its templated
\* description.
CharactersRecurringOnly ==
    stage = "done" =>
        LET starts == NameStarts(raw_text)
            word == [p \in starts |-> NameAt(raw_text, p)]
            candidates == {word[p] : p \in starts} \ Blacklist
            count == [w \in candidates |->
                         Cardinality({p \in starts : word[p] = w})]
            first == [w \in candidates |->
                         CHOOSE p \in starts :
                             /\ word[p] = w
                             /\ \A q \in starts : word[q] = w => p <= q]
            recurring == {w \in candidates : count[w] > 2}
            n == Len(characters)
            name == [i \in 1..n |-> characters[i].name]
        IN  /\ n = Min(10, Cardinality(recurring))
            /\ \A i \in 1..n :
                    /\ name[i] \in recurring
                    /\ characters[i].description = name[i] \o DescriptionSuffix
            /\ \A i, j \in 1..n :
                    i < j => RankedBefore(count[name[i]], first[name[i]],
                                          count[name[j]], first[name[j]])
            /\ \A w \in recurring :
                    (\A i \in 1..n : name[i] # w) =>
                        \A i \in 1..n :
                            RankedBefore(count[name[i]], first[name[i]],
                                         count[w], first[w])

\* a text with more than ten recurring names, and a name that occurs fewer
\* than three times, has been cut to ten characters
CharactersCutToTen ==
    /\ stage = "done"
    /\ Len(characters) = 10
    /\ Contains(raw_text, ManyNames[11])
    /\ Contains(raw_text, <<"A", "l", "i", "c", "e">>)
    /\ \A i \in 1..10 : characters[i].name # <<"A", "l", "i", "c", "e">>

-----------------------------------------------------------------------------
(* generate_summary.                                                       *)

MaxSumPieces == 4   \* most pieces a generate_summary input is built from

SentenceEnd == {".", "!", "?"}

\* the first position at or after i that holds no blank (' +', greedy)
RECURSIVE SkipBlank(_, _)
SkipBlank(s, i) ==
    IF i <= Len(s) /\ s[i] = " " THEN SkipBlank(s, i + 1) ELSE i

\* re.split(r'(?<=[.!?]) +', s) from position pos on, the current piece
\* having started at position start
RECURSIVE SplitSentences(_, _, _)
SplitSentences(s, pos, start) ==
    LET hits == {i \in pos..Len(s) :
                    s[i] = " " /\ i > 1 /\ s[i - 1] \in SentenceEnd}
    IN  IF hits = {} THEN <<Slice(s, start, Len(s) + 1)>>
        ELSE LET i == MinOf(hits)
                 e == SkipBlank(s, i)
             IN  <<Slice(s, start, i)>> \o SplitSentences(s, e, e)

\* line 77
FallbackSummary ==
    <<"A", " ", "s", "t", "o", "r", "y", " ", "a", "b", "o", "u", "t", " ",
      "i", "m", "a", "g", "i", "n", "a", "t", "i", "o", "n", ",", " ", "a",
      "d", "v", "e", "n", "t", "u", "r", "e", ",", " ", "a", "n", "d", " ",
      "t", "r", "a", "n", "s", "f", "o", "r", "m", "a", "t", "i", "o", "n",
      ".">>

\* the loop of lines 74-77 with the test len(sentence.split()) >= 6
RECURSIVE FirstSixWordSentence(_)
FirstSixWordSentence(sentences) ==
    IF sentences = <<>> THEN FallbackSummary
    ELSE IF WordCount(Head(sentences)) >= 6 THEN Strip(Head(sentences))
    ELSE FirstSixWordSentence(Tail(sentences))
GenerateSummaryAtLeastSix(text) ==
    FirstSixWordSentence(SplitSentences(text, 1, 1))

\* the loop of lines 74-77
RECURSIVE FirstLongSentence(_)
FirstLongSentence(sentences) ==
    IF sentences = <<>> THEN FallbackSummary
    ELSE IF WordCount(Head(sentences)) > 6 THEN Strip(Head(sentences))
    ELSE FirstLongSentence(Tail(sentences))

\* lines 72-77
GenerateSummary(text) == FirstLongSentence(SplitSentences(text, 1, 1))

\* the pieces generate_summary inputs are built from
SumPieces ==
    { <<"H", "i", ".", " ">>,
      <<"o", "n", "e", " ", "t", "w", "o", " ", "t", "h", "r", "e", "e", " ">>,
      <<"f", "o", "u", "r", " ", "f", "i", "v", "e", " ", "s", "i", "x", " ",
        "s", "e", "v", "e", "n", ".", " ">>,
      <<"a", ".", "b", " ">>,
      <<"e", "n", "d", "!", " ", " ">>,
      <<"x", "?", "\n">>,
      <<"\n", "s", "o", " ">> }

\* the example of the specification, and its second sentence
SummaryExample ==
    <<"H", "i", ".", " ", "T", "h", "i", "s", " ", "i", "s", " ", "a", " ",
      "l", "o", "n", "g", "e", "r", " ", "i", "n", "t", "r", "o", "d", "u",
      "c", "t", "o", "r", "y", " ", "s", "e", "n", "t", "e", "n", "c", "e",
      " ", "w", "i", "t", "h", " ", "m", "o", "r", "e", " ", "t", "h", "a",
      "n", " ", "s", "i", "x", " ", "w", "o", "r", "d", "s", " ", "i", "n",
      " ", "i", "t", ".">>
SummaryExampleSecond ==
    <<"T", "h", "i", "s", " ", "i", "s", " ", "a", " ", "l", "o", "n", "g",
      "e", "r", " ", "i", "n", "t", "r", "o", "d", "u", "c", "t", "o", "r",
      "y", " ", "s", "e", "n", "t", "e", "n", "c", "e", " ", "w", "i", "t",
      "h", " ", "m", "o", "r", "e", " ", "t", "h", "a", "n", " ", "s", "i",
      "x", " ", "w", "o", "r", "d", "s", " ", "i", "n", " ", "i", "t", ".">>

SumTexts ==
    {Flatten(ps) : ps \in SeqsUpTo(SumPieces, MaxSumPieces)}
    \cup {SummaryExample}

InitSum ==
    /\ IdleMain /\ IdleNum
    /\ raw_text \in SumTexts
    /\ stage = "input"
    /\ chapters = <<>>
    /\ category = ""
    /\ characters = <<>>
    /\ summary = <<>>

Summarise ==
    /\ stage = "input"
    /\ stage' = "done"
    /\ summary' = GenerateSummary(raw_text)
    /\ UNCHANGED <<raw_text, chapters, category, characters, mainVars, numVars>>

SpecSum == InitSum /\ [][Summarise]_vars

\* the sentence boundaries of s: the positions of the blanks that directly
\* follow a '.', '!' or '?'
Boundaries(s) == {b \in 2..Len(s) : s[b] = " " /\ s[b - 1] \in SentenceEnd}

\* a sentence starts at a, given the boundaries B of s: at the start of the
\* text, or where the run of blanks of a boundary ends
SentenceStartsAt(s, B, a) ==
    \/ a = 1
    \/ /\ a = Len(s) + 1 \/ s[a] # " "
       /\ \E b \in B : b < a /\ \A x \in b..(a - 1) : s[x] = " "

\* the sentence that starts at a ends before the next boundary, or with the
\* text when no boundary follows
SentenceEndsAt(s, B, a) ==
    IF \E b \in B : b >= a
    THEN CHOOSE b \in B : b >= a /\ \A c \in B : c >= a => b <= c
    ELSE Len(s) + 1

-----------------------------------------------------------------------------
(* The text normalizer: slugify, clean_title, clean_author, get_cover_image *)
(* and the title, heading and text that BeautifulSoup hands out.           *)

\* the first position at or after i that holds a character of [a-z0-9]
RECURSIVE SkipNonSlug(_, _)
SkipNonSlug(s, i) ==
    IF i <= Len(s) /\ s[i] \notin LowerSet \cup DigitSet
    THEN SkipNonSlug(s, i + 1) ELSE i

\* re.sub(r'[^a-z0-9]+', '-', s) from position i on
RECURSIVE HyphenateRuns(_, _)
HyphenateRuns(s, i) ==
    LET hits == {j \in i..Len(s) : s[j] \notin LowerSet \cup DigitSet}
    IN  IF hits = {} THEN Slice(s, i, Len(s) + 1)
        ELSE LET j == MinOf(hits)
             IN  Slice(s, i, j) \o <<"-">>
                 \o HyphenateRuns(s, SkipNonSlug(s, j))

\* str.strip('-')
RECURSIVE StripHyphens(_)
StripHyphens(s) ==
    IF s # <<>> /\ Head(s) = "-" THEN StripHyphens(Tail(s))
    ELSE IF s # <<>> /\ s[Len(s)] = "-"
         THEN StripHyphens(SubSeq(s, 1, Len(s) - 1))
    ELSE s

\* lines 15-16
Slugify(text) == StripHyphens(HyphenateRuns(Lower(text), 1))

\* s.replace(old, new) from position i on
RECURSIVE Replace(_, _, _, _)
Replace(s, old, new, i) ==
    LET hits == {j \in i..Len(s) : OccursAt(s, old, j)}
    IN  IF hits = {} THEN Slice(s, i, Len(s) + 1)
        ELSE LET j == MinOf(hits)
             IN  Slice(s, i, j) \o new \o Replace(s, old, new, j + Len(old))

\* s.split(sep)[0]: s up to the first occurrence of sep
BeforeFirst(s, sep) ==
    IF Contains(s, sep)
    THEN SubSeq(s, 1, (CHOOSE i \in 1..Len(s) :
                          /\ OccursAt(s, sep, i)
                          /\ \A j \in 1..(i - 1) : ~OccursAt(s, sep, j)) - 1)
    ELSE s

\* s.rsplit(sep, 1)[0] for a one-character sep: s up to its last occurrence
BeforeLast(s, sep) ==
    IF \E i \in 1..Len(s) : s[i] = sep
    THEN SubSeq(s, 1, (CHOOSE i \in 1..Len(s) :
                          /\ s[i] = sep
                          /\ \A j \in (i + 1)..Len(s) : s[j] # sep) - 1)
    ELSE s

GutenbergPrefix ==
    <<"T", "h", "e", " ", "P", "r", "o", "j", "e", "c", "t", " ", "G", "u",
      "t", "e", "n", "b", "e", "r", "g", " ", "e", "B", "o", "o", "k", " ",
      "o", "f">>
CommaBy == <<",", " ", "b", "y">>
CoverPath ==
    <<"/", "i", "m", "a", "g", "e", "s", "/", "c", "o", "v", "e", "r", ".",
      "j", "p", "g">>
Unknown == <<"U", "n", "k", "n", "o", "w", "n">>

\* lines 59-61
GetCoverImage(url) == BeforeLast(url, "/") \o CoverPath

\* lines 63-65
CleanTitle(raw_title) ==
    Strip(BeforeFirst(Replace(raw_title, GutenbergPrefix, <<>>, 1), CommaBy))

\* re.sub(r"\[.*?\]", "", s) from position i on: a '[' goes with everything
\* up to the first ']' after it when no newline lies between them
BracketEnd(s, i) ==
    LET ends == {e \in (i + 1)..Len(s) :
                    s[e] = "]" /\ \A x \in (i + 1)..(e - 1) : s[x] # "\n"}
    IN  IF s[i] = "[" /\ ends # {} THEN MinOf(ends) ELSE 0
RECURSIVE DropBracketed(_, _)
DropBracketed(s, i) ==
    LET hits == {j \in i..Len(s) : BracketEnd(s, j) > 0}
    IN  IF hits = {} THEN Slice(s, i, Len(s) + 1)
        ELSE LET j == MinOf(hits)
             IN  Slice(s, i, j) \o DropBracketed(s, BracketEnd(s, j) + 1)

\* lines 67-70
CleanAuthor(raw_author) ==
    LET author == Strip(Replace(raw_author, <<"b", "y">>, <<>>, 1))
    IN  Strip(DropBracketed(author, 1))

\* " ".join(nodes)
RECURSIVE JoinBlank(_)
JoinBlank(nodes) ==
    IF nodes = <<>> THEN <<>>
    ELSE IF Len(nodes) = 1 THEN nodes[1]
    ELSE nodes[1] \o <<" ">> \o JoinBlank(Tail(nodes))

\* A fetched page is the record of its text nodes: the title element (when
\* has_title), the first h2 element (when has_h2) and the body's text nodes.
\* soup.get_text(separator=' ', strip=True): the stripped, non-empty text
\* nodes in document order, joined by one blank
GetText(page) ==
    LET nodes == (IF page.has_title THEN <<page.title>> ELSE <<>>)
                 \o (IF page.has_h2 THEN <<page.h2>> ELSE <<>>)
                 \o page.body
        stripped == [i \in 1..Len(nodes) |-> Strip(nodes[i])]
    IN  JoinBlank(SelectSeq(stripped, LAMBDA t : t # <<>>))

-----------------------------------------------------------------------------
(* parse_gutenberg_html and main().                                        *)

MaxYears == 1   \* how many times the calendar year changes

\* the URLs given to --url
Urls ==
    { <<"g", "/", "1", "/", "a">>,
      <<"x">> }

\* the pages requests.get may return: the same work under two titles that
\* differ in case and punctuation, another work, and a page with no title
PageATale ==
    [has_title |-> TRUE,
     title |-> <<"T", "h", "e", " ", "P", "r", "o", "j", "e", "c", "t", " ",
                "G", "u", "t", "e", "n", "b", "e", "r", "g", " ", "e", "B",
                "o", "o", "k", " ", "o", "f", " ", "A", " ", "T", "a", "l",
                "e", ",", " ", "b", "y", " ", "A", "n", "n", " ", "L", "e",
                "e">>,
     has_h2 |-> TRUE,
     h2 |-> <<"b", "y", " ", "A", "n", "n", " ", "L", "e", "e", " ", "[",
             "I", "l", "l", "u", "s", "t", "r", "a", "t", "e", "d", "]">>,
     body |-> << <<"C", "h", "a", "p", "t", "e", "r", " ", "1", " ", "T",
                   "o", "m", " ", "m", "e", "t", " ", "a", " ", "w", "i",
                   "s", "e", " ", "c", "a", "t", ".">>,
                 <<" ", "C", "h", "a", "p", "t", "e", "r", " ", "2", " ",
                   "T", "o", "m", " ", "a", "n", "d", " ", "T", "o", "m",
                   " ", "w", "e", "n", "t", " ", "h", "o", "m", "e", " ",
                   "w", "i", "t", "h", " ", "T", "o", "m", " ", "a", "n",
                   "d", " ", "h", "i", "s", " ", "f", "r", "i", "e", "n",
                   "d", ".", " ">> >>]
PageATaleAgain ==
    [has_title |-> TRUE,
     title |-> <<" ", "A", " ", "t", "a", "l", "e", "!", " ">>,
     has_h2 |-> FALSE,
     h2 |-> <<>>,
     body |-> << <<"O", "n", "c", "e", " ", "u", "p", "o", "n", " ", "a",
                   " ", "t", "i", "m", "e", ".">> >>]
PageZed ==
    [has_title |-> TRUE,
     title |-> <<"Z", "e", "d">>,
     has_h2 |-> TRUE,
     h2 |-> <<"S", "h", "e", "l", "b", "y">>,
     body |-> << <<"C", "h", "a", "p", "t", "e", "r", " ", "I", " ", "m",
                   "a", "g", "i", "c">> >>]
PageNoTitle ==
    [has_title |-> FALSE,
     title |-> <<>>,
     has_h2 |-> TRUE,
     h2 |-> <<"Z", "e", "d">>,
     body |-> << <<"C", "h", "a", "p", "t", "e", "r", " ", "I", " ", "m",
                   "a", "g", "i", "c">> >>]

Pages == {PageATale, PageATaleAgain, PageZed, PageNoTitle}

\* the answers typed at the overwrite prompt
Answers == {<<"y">>, <<" ", "Y", " ">>, <<"n">>, <<>>}

\* lines 83-92 and 98-116: what parse_gutenberg_html derives from the page
\* alone, for a page that has a title
AnalysePage(page) ==
    LET raw_title == Strip(page.title)
        raw_author == IF page.has_h2 THEN Strip(page.h2) ELSE Unknown
        text == GetText(page)
        wc == WordCount(text)
    IN  [title |-> CleanTitle(raw_title),
         author |-> CleanAuthor(raw_author),
         category |-> DetectCategory(text),
         summary |-> GenerateSummary(text),
         reading_time |-> EstimateReadingTime(wc),
         age_category |-> DetectAgeCategory(wc),
         characters |-> ExtractCharacters(text),
         chapters |-> Segment(text)]

\* the analysis of every page that has a title, computed once
Analysed == {<<page, AnalysePage(page)>> : page \in {p \in Pages : p.has_title}}

\* lines 79-118 for a page that has a title: the record and the chapter map
ParseGutenbergHtml(url, page, now_year) ==
    LET a == (CHOOSE t \in Analysed : t[1] = page)[2]
    IN  [story_data |->
            [title |-> a.title,
             author |-> a.author,
             year |-> now_year,
             category |-> a.category,
             cover_image |-> GetCoverImage(url),
             link |-> url,
             summary |-> a.summary,
             reading_time |-> a.reading_time,
             age_category |-> a.age_category,
             characters |-> a.characters],
         chapters |-> a.chapters]

\* line 147, with positions counted from 1 and 0 for None: an index search
\* that never finds the URL
ExistingIndexNever(library, url) == 0

ExistingIndex(library, url) ==
    IF \E i \in 1..Len(library) : library[i].link = url
    THEN CHOOSE i \in 1..Len(library) :
             /\ library[i].link = url
             /\ \A j \in 1..(i - 1) : library[j].link # url
    ELSE 0

\* lines 170-173, with an overwrite that moves the record to the end
UpdateLibraryMoveToEnd(library, existing_index, metadata) ==
    IF existing_index # 0
    THEN Append(SelectSeq(library, LAMBDA r : r.link # metadata.link), metadata)
    ELSE Append(library, metadata)

\* lines 170-173
UpdateLibrary(library, existing_index, metadata) ==
    IF existing_index # 0
    THEN [library EXCEPT ![existing_index] = metadata]
    ELSE Append(library, metadata)

\* lines 130-133: the file <slug>.json is created or overwritten
SaveStory(dir, slug, content) ==
    [s \in DOMAIN dir \cup {slug} |-> IF s = slug THEN content ELSE dir[s]]

\* no prompt is shown for a URL that is not in the library: nothing is typed
Asked(url, answer) ==
    ExistingIndex(library_file, url) = 0 => answer = <<>>

\* lines 149-155: the run gets as far as parsing: the URL is new, or the
\* answer, stripped and lower-cased, is 'y'
Proceeds(url, answer) ==
    /\ Asked(url, answer)
    /\ ExistingIndex(library_file, url) # 0 => Lower(Strip(answer)) = <<"y">>

\* what a run leaves for inspection: its URL, the index it found, and the
\* record, slug and chapter map it parsed (empty when it parsed nothing)
RunOf(url, metadata, slug, content) ==
    [url |-> url,
     existing_index |-> ExistingIndex(library_file, url),
     metadata |-> metadata,
     slug |-> slug,
     content |-> content]

Init ==
    /\ IdleText /\ IdleNum
    /\ library_file = <<>>
    /\ content_dir = <<>>
    /\ head = <<<<>>, <<>>>>
    /\ year = 2024
    /\ outcome = "none"
    /\ run = <<>>
    /\ origin = <<>>

\* lines 146-153: the URL is in the library and the answer is not 'y'
MainCancelled(url, answer) ==
    /\ Asked(url, answer)
    /\ ~Proceeds(url, answer)
    /\ outcome' = "cancelled"
    /\ run' = RunOf(url, <<>>, <<>>, <<>>)
    /\ UNCHANGED <<library_file, content_dir, head, year, origin>>
    /\ UNCHANGED <<textVars, numVars>>

\* lines 146-158 and 83: the page has no title element, soup.find('title') is
\* None and its .text raises AttributeError, which nothing catches
MainAbortedPartial(url, answer, page) ==
    /\ Proceeds(url, answer)
    /\ ~page.has_title
    /\ outcome' = "aborted"
    /\ run' = RunOf(url, <<>>, <<>>, <<>>)
    /\ content_dir' = SaveStory(content_dir, <<>>, <<>>)
    /\ UNCHANGED <<library_file, head, year, origin>>
    /\ UNCHANGED <<textVars, numVars>>

MainAborted(url, answer, page) ==
    /\ Proceeds(url, answer)
    /\ ~page.has_title
    /\ outcome' = "aborted"
    /\ run' = RunOf(url, <<>>, <<>>, <<>>)
    /\ UNCHANGED <<library_file, content_dir, head, year, origin>>
    /\ UNCHANGED <<textVars, numVars>>

\* lines 146-175: the page parses, the chapter file and the library are
\* written
Persist(url, answer, page) ==
    /\ Proceeds(url, answer)
    /\ page.has_title
    /\ LET parsed == ParseGutenbergHtml(url, page, year)
           metadata == parsed.story_data
           content == parsed.chapters
           slug == Slugify(metadata.title)
           existing_index == ExistingIndex(library_file, url)
       IN  /\ content_dir' = SaveStory(content_dir, slug, content)
           /\ library_file' =
                  UpdateLibrary(library_file, existing_index, metadata)
           /\ run' = RunOf(url, metadata, slug, content)
           /\ origin' = [u \in DOMAIN origin \cup {url} |->
                            IF u = url THEN content ELSE origin[u]]
    /\ UNCHANGED <<year, textVars, numVars>>

\* lines 146-177: the files are written and commit_and_push runs.  When the
\* files hold what is already committed, git commit finds nothing to commit
\* and check=True raises; otherwise the commit is made and git push either
\* succeeds or fails, and then check=True raises
MainPersisted(url, answer, page) ==
    /\ Persist(url, answer, page)
    /\ IF <<library_file', content_dir'>> = head
       THEN /\ UNCHANGED head
            /\ outcome' = "commit_failed"
       ELSE /\ head' = <<library_file', content_dir'>>
            /\ outcome' \in {"saved", "push_failed"}

\* the calendar year changes between two runs
NewYear ==
    /\ year < 2024 + MaxYears
    /\ year' = year + 1
    /\ UNCHANGED <<library_file, content_dir, head, outcome, run, origin>>
    /\ UNCHANGED <<textVars, numVars>>

Next ==
    \/ \E url \in Urls, answer \in Answers : MainCancelled(url, answer)
    \/ \E url \in Urls, answer \in Answers, page \in Pages :
           MainAborted(url, answer, page)
    \/ \E url \in Urls, answer \in Answers, page \in Pages :
           MainPersisted(url, answer, page)
    \/ NewYear

Spec == Init /\ [][Next]_vars

\* lines 146-177: a run that ends with "Story saved and pushed"
MainSaved(url, answer, page) ==
    /\ MainPersisted(url, answer, page)
    /\ outcome' = "saved"

\* only successful runs
NextSaved ==
    \/ \E url \in Urls, answer \in Answers, page \in Pages :
           MainSaved(url, answer, page)
    \/ NewYear

SpecSaved == Init /\ [][NextSaved]_vars

-----------------------------------------------------------------------------
\* C1: whatever runs of main() have happened, with any URL, answer and page,
\* parsed or aborted, no two records of the library have the same link.
NoDuplicateLinks ==
    \A i, j \in 1..Len(library_file) :
        i # j => library_file[i].link # library_file[j].link

\* a URL already in a library of two records has been extracted again and
\* saved
OverwroteInFullLibrary ==
    /\ outcome = "saved"
    /\ run.existing_index # 0
    /\ Len(library_file) = 2

\* the files a run may write, and the commit it may make
Persisted == <<library_file, content_dir, head>>

\* C2: a run that aborts because the page has no title element leaves the
\* library file, every chapter file and the git history exactly as they were;
\* and a run that does write writes the whole new record and its whole
\* chapter map.
AbortStep ==
    outcome' = "aborted" => Persisted' = Persisted
AllOrNothingStep ==
    \/ <<library_file, content_dir>>' = <<library_file, content_dir>>
    \/ /\ run'.metadata # <<>>
       /\ \E i \in 1..Len(library_file') : library_file'[i] = run'.metadata
       /\ run'.slug \in DOMAIN content_dir'
       /\ content_dir'[run'.slug] = run'.content
AbortPersistsNothing == [][AbortStep /\ AllOrNothingStep]_vars

\* a run for a URL of a non-empty library has aborted on a page with no title
AbortedOnOverwrite ==
    /\ outcome = "aborted"
    /\ run.existing_index # 0
    /\ library_file # <<>>

\* C3: a run that re-extracts a URL already in the library, the overwrite
\* confirmed, puts the newly assembled record at that URL's position and
\* leaves every other record, the order and the length of the library as they
\* were; and no step ever shortens the library or takes a link out of its
\* position.
OverwriteStep ==
    (run' # run /\ run'.existing_index # 0 /\ run'.metadata # <<>>) =>
        /\ library_file[run'.existing_index].link = run'.url
        /\ library_file' =
               [library_file EXCEPT ![run'.existing_index] = run'.metadata]
NeverDeleteStep ==
    /\ Len(library_file') >= Len(library_file)
    /\ \A i \in 1..Len(library_file) :
           library_file'[i].link = library_file[i].link
OverwriteReplacesWhole == [][OverwriteStep /\ NeverDeleteStep]_vars

\* the first of two records has been overwritten by a re-extraction
OverwroteFirstOfTwo ==
    /\ outcome = "saved"
    /\ run.existing_index = 1
    /\ Len(library_file) = 2
    /\ library_file[1] = run.metadata

\* C10: after successful runs only, the chapter file named by the slug of each
\* record's title holds the chapter map made by the run that made the record.
ChapterFileOfEveryRecord ==
    \A i \in 1..Len(library_file) :
        LET slug == Slugify(library_file[i].title)
        IN  /\ slug \in DOMAIN content_dir
            /\ content_dir[slug] = origin[library_file[i].link]

=============================================================================
